---- MODULE Spec2Model ----
(***************************************************************************)
(* Model of your_program_is_terminated.py: the termination_monitor context *)
(* manager (signal-to-exception bridge, restore / classify / notify on     *)
(* release) at the granularity of the points where CPython can run a       *)
(* Python-level signal handler (between the statements of __enter__ and    *)
(* __exit__, inside the guarded block, inside SimpleEmailServer.send).     *)
(***************************************************************************)
EXTENDS Integers, Sequences, FiniteSets, TLC

\* ------------------------------------------------------------------ bounds
MaxSignals == 2        \* signals delivered to the process in one run
MaxWork == 1           \* steps of the guarded block before it ends
MaxCycles == 2         \* with-statements run in sequence on one instance

\* --------------------------------------------------------- signal surface
Intercepted == {"SIGTERM", "SIGINT"}
AllSignals == Intercepted \cup {"SIGHUP"}

\* dispositions a process can have for a signal before the guard is entered
\* C_HANDLER is a handler that was not installed from Python
PriorDispositions == {"SIG_DFL", "SIG_IGN", "default_int_handler", "C_HANDLER"}
Handler == "_handle_signal"

\* --------------------------------------------------------------- exceptions
NoExc == [type |-> "None", msg |-> <<>>]
KeyboardInterrupt == [type |-> "KeyboardInterrupt", msg |-> <<>>]
TypeErrorNone == [type |-> "TypeError", msg |-> <<"signal handler must be signal.SIG_IGN, signal.SIG_DFL, or a callable object">>]
BlockErrors == {[type |-> "ValueError", msg |-> <<"x">>], [type |-> "RuntimeError", msg |-> <<"y">>], KeyboardInterrupt}
Killed(sig) == [type |-> "KilledBySignal", msg |-> <<sig>>]
\* ways the with-statement can still be going / can return normally
Pending == [type |-> "pending", msg |-> <<>>]
Return == [type |-> "return", msg |-> <<>>]

VARIABLES
  pc,                 \* next statement of the with-statement to execute
  disp,               \* process-wide signal disposition table
  prior,              \* the table as it was before __enter__ (never changes)
  recipient_email, sender_email, sender_password,   \* resolved configuration present?
  mailer,             \* self.mailer is not None
  _original_sigint, _original_sigterm,                \* self._original_sig*
  exc,                \* exception handed to __exit__ (NoExc if none)
  status, error_details,                            \* locals of __exit__
  outbox,             \* calls of mailer.send made so far
  result,             \* what reaches the caller of the with-statement
  work,               \* steps done by the guarded block
  blockExit,          \* how the guarded block ended
  trigger,            \* signal the guard's handler intercepted inside the block
  exitEntered,        \* __exit__ has been called
  sigLog,             \* signals delivered: which, where, under which disposition
  ref,                \* what the same program does without the guard
  proxy_info,         \* mailer.proxy_info: "None", "http" or "socks5"
  smtp_port,          \* mailer.smtp_port
  smtp,               \* next statement of send to execute ("none" outside send)
  conns,              \* SMTP connections opened by send and not closed
  sendErr,            \* exception raised inside the try block of the current send
  socket_socket,      \* process-wide socket.socket
  defaultproxy,       \* process-wide PySocks default proxy
  first,              \* the disposition table before the first __enter__
  cycle               \* which with-statement on this instance is running

vars == <<pc, disp, prior, recipient_email, sender_email, sender_password, mailer,
          _original_sigint, _original_sigterm, exc, status, error_details, outbox,
          result, work, blockExit, trigger, exitEntered, sigLog, ref,
          proxy_info, smtp_port, smtp, conns, sendErr, socket_socket, defaultproxy, first, cycle>>

\* ------------------------------------------------------------ pure helpers
Contains(text, tok) == \E i \in 1..Len(text) : text[i] = tok

\* signal.signal(sig, h) returns the previous Python-level handler, or None
\* when the previous handler was not installed from Python
SignalReturn(d) == IF d = "C_HANDLER" THEN "None" ELSE d

InstallHandler_all(d, sig) == [s \in DOMAIN d |-> Handler]
InstallHandler(d, sig) == [d EXCEPT ![sig] = Handler]

RestoreDisposition_skip(d, sig, old) == d
RestoreDisposition(d, sig, old) == [d EXCEPT ![sig] = old]

\* _handle_signal: sys.exit(f"Process terminated by signal {sig_name}")
_handle_signal_returns(sig) == NoExc
_handle_signal(sig) == [type |-> "SystemExit", msg |-> <<"Process terminated by signal", sig>>]

\* traceback.format_exception(exc_type, exc_value, tb) joined
FormatException(e) == <<"Traceback (most recent call last):", e.type>> \o e.msg

\* lines 136-153: status and error_details from the exception context
ClassifyStatus(e) ==
  IF e = NoExc THEN "Success"
  ELSE IF e.type = "KeyboardInterrupt" THEN "Interrupted by User (Ctrl+C)"
  ELSE "Crashed / Terminated"
ClassifyDetails_messageOnly(e) ==
  IF e = NoExc THEN <<"None">>
  ELSE IF e.type = "KeyboardInterrupt" THEN <<"User manually stopped the program.">>
  ELSE e.msg
ClassifyDetails(e) ==
  IF e = NoExc THEN <<"None">>
  ELSE IF e.type = "KeyboardInterrupt" THEN <<"User manually stopped the program.">>
  ELSE FormatException(e)

StartSubject == <<"[INFO] Monitoring Activated: Your Program Started">>
StartBody == <<"Program monitoring has started successfully.", "Host Machine:", "hostname", "Start Time:", "start_time">>
AlertSubject(st) == <<"[ALERT] Your Program is Terminated:", st>>
AlertBody(st, details) ==
  <<"Your program monitoring report:", "Host Machine:", "hostname", "Status:", st, "Time:", "end_time", "Error Logs / Traceback:">>
  \o details \o <<"This is an automated message from Your_Program_is_Terminated library.">>

\* __exit__ returns False: the exception is not suppressed
ExitReturnValue_suppress == TRUE
ExitReturnValue == FALSE

TermCalls == SelectSeq(outbox, LAMBDA m : m.from = "_trigger_alert")
StartCalls == SelectSeq(outbox, LAMBDA m : m.from = "__enter__")
TermSends == Len(TermCalls)
InterceptedLog == SelectSeq(sigLog, LAMBDA s : s.disp = Handler)

\* line 97: the mailer is built only when all three are present
MailerConfigured_noRecipient(sender, password, recipient) == sender /\ password
MailerConfigured(sender, password, recipient) == sender /\ password /\ recipient

\* _parse_proxy, lines 31-38: 'http' for an http(s) URL, else 'socks5'; None without a proxy
ProxyTypes == {"None", "http", "socks5"}
\* line 60: port 465 connects with SMTP_SSL, any other port with SMTP + starttls
SslPort == 465
DefaultPort == 587
Ports == {SslPort, DefaultPort}

\* transport failures raised by smtplib / the socket layer: a command the
\* server rejects (the connection stays open) or a connection that breaks
SMTPRejected == [type |-> "SMTPException", msg |-> <<"rejected">>]
ConnectionBroken == [type |-> "OSError", msg |-> <<"connection lost">>]
TransportErrors == {SMTPRejected, ConnectionBroken}

\* line 71: except Exception
SendCatches_smtpOnly(e) == e.type = "SMTPException"
SendCatches(e) == e.type \in {"SMTPException", "OSError", "ValueError", "RuntimeError", "TypeError"}

\* lines 53-58: with a proxy the default proxy is set and socket.socket replaced
PatchSocket_always(cur, p) == "socks.socksocket"
PatchSocket(cur, p) == IF p # "None" THEN "socks.socksocket" ELSE cur
SetDefaultProxy(cur, p) == IF p # "None" THEN p ELSE cur

\* a call of mailer.send as recorded in outbox; ret is filled at its return
SendCall(from, subject, body, n) == [from |-> from, subject |-> subject, body |-> body, cycle |-> n, ret |-> "pending"]
SetRet(box, r) == [box EXCEPT ![Len(box)].ret = r]
SendSites == {"L126", "L193"}

\* -------------------------------------------------------------------- Init
\* state after termination_monitor.__init__
Init ==
  /\ pc = "idle"
  /\ prior \in [AllSignals -> PriorDispositions]
  /\ prior["SIGHUP"] = "SIG_IGN"
  /\ disp = prior
  /\ recipient_email \in BOOLEAN
  /\ sender_email \in BOOLEAN
  /\ sender_password \in BOOLEAN
  /\ mailer = MailerConfigured(sender_email, sender_password, recipient_email)
  /\ proxy_info \in (IF mailer THEN ProxyTypes ELSE {"None"})
  /\ smtp_port \in (IF mailer THEN Ports ELSE {DefaultPort})
  /\ smtp = "none"
  /\ conns = 0
  /\ sendErr = NoExc
  /\ socket_socket = "socket.socket"
  /\ defaultproxy = "None"
  /\ first = prior
  /\ cycle = 1
  /\ _original_sigint = "None"
  /\ _original_sigterm = "None"
  /\ exc = NoExc
  /\ status = "unset"
  /\ error_details = <<>>
  /\ outbox = <<>>
  /\ result = Pending
  /\ work = 0
  /\ blockExit = "none"
  /\ trigger = "None"
  /\ exitEntered = FALSE
  /\ sigLog = <<>>
  /\ ref = Pending

config == <<prior, recipient_email, sender_email, sender_password, mailer, proxy_info, smtp_port, first, cycle>>
exitLocals == <<status, error_details>>
saved == <<_original_sigint, _original_sigterm>>
net == <<smtp, conns, sendErr, socket_socket, defaultproxy>>

\* ------------------------------------------------------------- __enter__
\* the with-statement calls __enter__ (lines 105-107)
With ==
  /\ pc = "idle"
  /\ pc' = "L110"
  /\ UNCHANGED <<disp, config, saved, exc, exitLocals, outbox, result, work, blockExit, trigger, exitEntered, sigLog, ref, net>>

EnterL110 ==
  /\ pc = "L110"
  /\ _original_sigterm' = SignalReturn(disp["SIGTERM"])
  /\ disp' = InstallHandler(disp, "SIGTERM")
  /\ pc' = "L112"
  /\ UNCHANGED <<config, _original_sigint, exc, exitLocals, outbox, result, work, blockExit, trigger, exitEntered, sigLog, ref, net>>

EnterL112 ==
  /\ pc = "L112"
  /\ _original_sigint' = SignalReturn(disp["SIGINT"])
  /\ disp' = InstallHandler(disp, "SIGINT")
  /\ pc' = "L115"
  /\ UNCHANGED <<config, _original_sigterm, exc, exitLocals, outbox, result, work, blockExit, trigger, exitEntered, sigLog, ref, net>>

\* lines 115-126: the start notification, only with a mailer
EnterL115 ==
  /\ pc = "L115"
  /\ IF mailer
       THEN /\ outbox' = Append(outbox, SendCall("__enter__", StartSubject, StartBody, cycle))
            /\ pc' = "L126"
            /\ smtp' = "L53"
            /\ sendErr' = NoExc
       ELSE /\ outbox' = outbox
            /\ pc' = "block"
            /\ smtp' = smtp
            /\ sendErr' = sendErr
  /\ UNCHANGED <<disp, config, saved, exc, exitLocals, result, work, blockExit, trigger, exitEntered, sigLog, ref, conns, socket_socket, defaultproxy>>

\* line 126 does not use what send returned; line 129 returns self
AfterStartSend_stopOnFailure(ret) == IF ret = "True" THEN "block" ELSE "done"
AfterStartSend(ret) == "block"

\* mailer.send has returned True or False to __enter__
EnterSendReturns ==
  /\ pc = "L126"
  /\ smtp = "ret"
  /\ pc' = AfterStartSend(outbox[Len(outbox)].ret)
  /\ smtp' = "none"
  /\ UNCHANGED <<disp, config, saved, exc, exitLocals, outbox, result, work, blockExit, trigger, exitEntered, sigLog, ref, conns, sendErr, socket_socket, defaultproxy>>

\* --------------------------------------------------------- guarded block
BlockWork ==
  /\ pc = "block"
  /\ work < MaxWork
  /\ work' = work + 1
  /\ UNCHANGED <<pc, disp, config, saved, exc, exitLocals, outbox, result, blockExit, trigger, exitEntered, sigLog, ref, net>>

\* the block completes: the with-statement calls __exit__(None, None, None)
BlockReturn ==
  /\ pc = "block"
  /\ pc' = "L140"
  /\ exc' = NoExc
  /\ exitEntered' = TRUE
  /\ blockExit' = "return"
  /\ ref' = IF ref = Pending THEN Return ELSE ref
  /\ UNCHANGED <<disp, config, saved, exitLocals, outbox, result, work, trigger, sigLog, net>>

\* the block raises: the with-statement calls __exit__(type, value, tb)
BlockRaise ==
  /\ pc = "block"
  /\ \E e \in BlockErrors :
       /\ exc' = e
       /\ ref' = IF ref = Pending THEN e ELSE ref
  /\ pc' = "L140"
  /\ exitEntered' = TRUE
  /\ blockExit' = "raise"
  /\ UNCHANGED <<disp, config, saved, exitLocals, outbox, result, work, trigger, sigLog, net>>

\* ------------------------------------------------------------- __exit__
\* line 140: signal.signal(SIGTERM, self._original_sigterm); a saved None
\* is rejected with TypeError and the table is left as it is
ExitL140 ==
  /\ pc = "L140"
  /\ IF _original_sigterm = "None"
       THEN /\ pc' = "done"
            /\ result' = TypeErrorNone
            /\ disp' = disp
       ELSE /\ pc' = "L141"
            /\ result' = result
            /\ disp' = RestoreDisposition(disp, "SIGTERM", _original_sigterm)
  /\ UNCHANGED <<config, saved, exc, exitLocals, outbox, work, blockExit, trigger, exitEntered, sigLog, ref, net>>

\* line 141: signal.signal(SIGINT, self._original_sigint)
ExitL141 ==
  /\ pc = "L141"
  /\ IF _original_sigint = "None"
       THEN /\ pc' = "done"
            /\ result' = TypeErrorNone
            /\ disp' = disp
       ELSE /\ pc' = "L144"
            /\ result' = result
            /\ disp' = RestoreDisposition(disp, "SIGINT", _original_sigint)
  /\ UNCHANGED <<config, saved, exc, exitLocals, outbox, work, blockExit, trigger, exitEntered, sigLog, ref, net>>

\* lines 136-137, 144-153: classify the exit
ExitL144 ==
  /\ pc = "L144"
  /\ status' = ClassifyStatus(exc)
  /\ error_details' = ClassifyDetails(exc)
  /\ pc' = "L155"
  /\ UNCHANGED <<disp, config, saved, exc, outbox, result, work, blockExit, trigger, exitEntered, sigLog, ref, net>>

\* line 155 and _trigger_alert, lines 171-193: nothing without a mailer,
\* else one call of mailer.send with the report
_trigger_alert ==
  /\ pc = "L155"
  /\ IF mailer
       THEN /\ outbox' = Append(outbox, SendCall("_trigger_alert", AlertSubject(status), AlertBody(status, error_details), cycle))
            /\ pc' = "L193"
            /\ smtp' = "L53"
            /\ sendErr' = NoExc
       ELSE /\ outbox' = outbox
            /\ pc' = "L159"
            /\ smtp' = smtp
            /\ sendErr' = sendErr
  /\ UNCHANGED <<disp, config, saved, exc, exitLocals, result, work, blockExit, trigger, exitEntered, sigLog, ref, conns, socket_socket, defaultproxy>>

\* mailer.send has returned True or False to _trigger_alert, which does
\* not use it and returns to line 155
AlertSendReturns ==
  /\ pc = "L193"
  /\ smtp = "ret"
  /\ pc' = "L159"
  /\ smtp' = "none"
  /\ UNCHANGED <<disp, config, saved, exc, exitLocals, outbox, result, work, blockExit, trigger, exitEntered, sigLog, ref, conns, sendErr, socket_socket, defaultproxy>>

\* ------------------------------------------------ SimpleEmailServer.send
\* lines 71-73: an exception raised inside the try block; a caught one makes
\* send return False, any other leaves send and the method that called it
Except(e) ==
  /\ sendErr' = e
  /\ IF SendCatches(e)
    THEN /\ smtp' = "ret"
         /\ outbox' = SetRet(outbox, "False")
         /\ UNCHANGED <<pc, result>>
    ELSE /\ pc' = "done"
         /\ result' = e
         /\ UNCHANGED <<smtp, outbox>>

\* lines 44-58: build the message, set the proxy when one is configured
SendProxy ==
  /\ pc \in SendSites
  /\ smtp = "L53"
  /\ defaultproxy' = SetDefaultProxy(defaultproxy, proxy_info)
  /\ socket_socket' = PatchSocket(socket_socket, proxy_info)
  /\ smtp' = "L60"
  /\ UNCHANGED <<pc, disp, config, saved, exc, exitLocals, outbox, result, work, blockExit, trigger, exitEntered, sigLog, ref, conns, sendErr>>

\* lines 60-63: smtplib.SMTP_SSL(...) or smtplib.SMTP(...) opens the connection
SendConnect ==
  /\ pc \in SendSites
  /\ smtp = "L60"
  /\ \/ /\ conns' = conns + 1
        /\ smtp' = IF smtp_port = SslPort THEN "L66" ELSE "L64"
        /\ UNCHANGED <<pc, outbox, result, sendErr>>
     \/ /\ \E e \in TransportErrors : Except(e)
        /\ conns' = conns
  /\ UNCHANGED <<disp, config, saved, exc, exitLocals, work, blockExit, trigger, exitEntered, sigLog, ref, socket_socket, defaultproxy>>

\* line 64 starttls, line 66 login, line 67 sendmail: each can be rejected by
\* the server (connection still open) or lose the connection
SendCommand ==
  /\ pc \in SendSites
  /\ smtp \in {"L64", "L66", "L67"}
  /\ \/ /\ smtp' = (CASE smtp = "L64" -> "L66" [] smtp = "L66" -> "L67" [] OTHER -> "L68")
        /\ UNCHANGED <<pc, outbox, result, conns, sendErr>>
     \/ \E e \in TransportErrors :
          /\ Except(e)
          /\ conns' = IF e = ConnectionBroken THEN conns - 1 ELSE conns
  /\ UNCHANGED <<disp, config, saved, exc, exitLocals, work, blockExit, trigger, exitEntered, sigLog, ref, socket_socket, defaultproxy>>

\* lines 68-70: server.quit() closes the connection and send returns True;
\* a quit that fails has lost the connection
SendQuit ==
  /\ pc \in SendSites
  /\ smtp = "L68"
  /\ conns' = conns - 1
  /\ \/ /\ smtp' = "ret"
        /\ outbox' = SetRet(outbox, "True")
        /\ UNCHANGED <<pc, result, sendErr>>
     \/ Except(ConnectionBroken)
  /\ UNCHANGED <<disp, config, saved, exc, exitLocals, work, blockExit, trigger, exitEntered, sigLog, ref, socket_socket, defaultproxy>>

\* line 159: return False; the with-statement re-raises the exception it
\* handed to __exit__, or goes on normally when there was none
ExitL159 ==
  /\ pc = "L159"
  /\ pc' = "done"
  /\ result' = IF exc = NoExc \/ ExitReturnValue THEN Return ELSE exc
  /\ UNCHANGED <<disp, config, saved, exc, exitLocals, outbox, work, blockExit, trigger, exitEntered, sigLog, ref, net>>

\* ------------------------------------------------------ signal delivery
\* an exception e raised by a Python-level handler at the current statement:
\* inside the block the with-statement hands it to __exit__; inside
\* __enter__, __exit__ or send (SystemExit and KeyboardInterrupt are not
\* Exception subclasses, line 71) it leaves the with-statement
RaiseHere(e) ==
  IF e = NoExc
    THEN UNCHANGED <<pc, exc, exitEntered, blockExit, result>>
    ELSE IF pc = "block"
      THEN /\ pc' = "L140"
           /\ exc' = e
           /\ exitEntered' = TRUE
           /\ blockExit' = "signal"
           /\ result' = result
      ELSE /\ pc' = "done"
           /\ result' = e
           /\ UNCHANGED <<exc, exitEntered, blockExit>>

\* what the signal does to the same program running without the guard
Unguarded(r, sig) ==
  IF r # Pending THEN r
  ELSE IF prior[sig] = "SIG_DFL" THEN Killed(sig)
  ELSE IF prior[sig] = "default_int_handler" THEN KeyboardInterrupt
  ELSE r

\* lines 166-169: the handler prints and raises; it makes no call of mailer.send
HandlerSends_alert(box, sig) == Append(box, SendCall("_handle_signal", AlertSubject(sig), <<sig>>, cycle))
HandlerSends(box, sig) == box

\* a SIGINT or SIGTERM reaches the process while the with-statement runs
Deliver ==
  /\ pc \notin {"idle", "done", "killed"}
  /\ Len(sigLog) < MaxSignals
  /\ \E sig \in Intercepted :
       /\ sigLog' = Append(sigLog, [sig |-> sig, pc |-> pc, disp |-> disp[sig]])
       /\ ref' = Unguarded(ref, sig)
       /\ trigger' = IF disp[sig] = Handler /\ pc = "block" THEN sig ELSE trigger
       /\ outbox' = IF disp[sig] = Handler THEN HandlerSends(outbox, sig) ELSE outbox
       /\ CASE disp[sig] = Handler -> RaiseHere(_handle_signal(sig))
            [] disp[sig] = "default_int_handler" -> RaiseHere(KeyboardInterrupt)
            [] disp[sig] = "SIG_DFL" ->
                 /\ pc' = "killed"
                 /\ result' = Killed(sig)
                 /\ UNCHANGED <<exc, exitEntered, blockExit>>
            [] OTHER -> UNCHANGED <<pc, exc, exitEntered, blockExit, result>>
  /\ UNCHANGED <<disp, config, saved, exitLocals, work, net>>

Next ==
  \/ With
  \/ EnterL110
  \/ EnterL112
  \/ EnterL115
  \/ EnterSendReturns
  \/ BlockWork
  \/ BlockReturn
  \/ BlockRaise
  \/ ExitL140
  \/ ExitL141
  \/ ExitL144
  \/ _trigger_alert
  \/ AlertSendReturns
  \/ SendProxy
  \/ SendConnect
  \/ SendCommand
  \/ SendQuit
  \/ ExitL159
  \/ Deliver

Spec == Init /\ [][Next]_vars

\* ------------------------------------------- the same instance used again
\* the with-statement has come back to the caller and the program enters a
\* new with-statement on the same termination_monitor: __enter__ (lines
\* 105-112) captures whatever the table holds now
Reacquire ==
  /\ pc = "done"
  /\ cycle < MaxCycles
  /\ cycle' = cycle + 1
  /\ pc' = "idle"
  /\ prior' = disp
  /\ exc' = NoExc
  /\ status' = "unset"
  /\ error_details' = <<>>
  /\ result' = Pending
  /\ work' = 0
  /\ blockExit' = "none"
  /\ trigger' = "None"
  /\ exitEntered' = FALSE
  /\ ref' = Pending
  /\ smtp' = "none"
  /\ sendErr' = NoExc
  /\ UNCHANGED <<disp, recipient_email, sender_email, sender_password, mailer, proxy_info, smtp_port, first,
                 saved, outbox, sigLog, conns, socket_socket, defaultproxy>>

NextCycles ==
  \/ Next
  \/ Reacquire

\* one mail configuration and the interpreter's own SIGINT handler, so that
\* the second with-statement stays in reach
InitCycles ==
  /\ Init
  /\ proxy_info = "None"
  /\ smtp_port = SslPort
  /\ recipient_email /\ sender_email
  /\ prior["SIGINT"] = "default_int_handler"
  /\ prior["SIGTERM"] # "default_int_handler"

SpecCycles == InitCycles /\ [][NextCycles]_vars

TypeOK ==
  /\ pc \in {"idle", "L110", "L112", "L115", "L126", "block", "L140", "L141", "L144", "L155", "L193", "L159", "done", "killed"}
  /\ disp \in [AllSignals -> PriorDispositions \cup {Handler}]
  /\ mailer \in BOOLEAN
  /\ Len(sigLog) <= MaxSignals
  /\ work \in 0..MaxWork

\* ==================================================================== claims
Restored == \A s \in Intercepted : disp[s] = prior[s]
HandlerGone == \A s \in Intercepted : disp[s] # Handler

\* C1: every guarded-block execution that has come back to the caller made
\* exactly one terminated-notification call when the guard has a mailer and
\* none when it is degraded.
C1_OneTerminatedAttempt ==
  (pc = "done" /\ exitEntered) => TermSends = (IF mailer THEN 1 ELSE 0)

\* C2: once release has come back to the caller, SIGINT and SIGTERM have the
\* dispositions they had immediately before acquire.
C2_DispositionsRestored ==
  (pc = "done" /\ exitEntered) => Restored

\* C3: when the block raised error E, the error that reaches the caller
\* after release is E itself.
C3_OriginalErrorPropagates ==
  (pc = "done" /\ blockExit = "raise") => result = exc

\* C4: once the guard's handler has intercepted a signal inside the block,
\* release has been entered, and the with-statement never comes back to the
\* caller as a normal return.
C4_SignalReleasesAndTerminates ==
  trigger # "None" =>
    /\ exitEntered
    /\ pc # "block"
    /\ pc = "done" => result \notin {Return, Pending, NoExc}
C4_Witness ==
  /\ pc = "done"
  /\ trigger = "SIGTERM"
  /\ result = _handle_signal("SIGTERM")
  /\ TermSends = 1

\* C5: when the guarded program has ended and the same program without the
\* guard has ended too, they ended the same way.
C5_SameExitAsUnguarded ==
  (pc \in {"done", "killed"} /\ ref # Pending) => result = ref

\* C6: the terminated report made after an intercepted SIGINT carries the
\* user-interrupt status, and after an intercepted SIGTERM it is a
\* termination report naming SIGTERM.
C6_OutcomeBySignalKind ==
  \A i \in 1..Len(TermCalls) :
    /\ trigger = "SIGINT" => Contains(TermCalls[i].subject, "Interrupted by User (Ctrl+C)")
    /\ trigger = "SIGTERM" =>
          /\ ~Contains(TermCalls[i].subject, "Success")
          /\ Contains(TermCalls[i].body, "SIGTERM")

\* C7: after SIGTERM was intercepted inside the block of a guard with a
\* mailer, a release that reaches its return statement has made exactly one
\* send call, and the subject of that call contains "SIGTERM".
C7_SubjectNamesSignal ==
  (trigger = "SIGTERM" /\ mailer) =>
    /\ pc = "L159" => TermSends = 1
    /\ \A i \in 1..Len(TermCalls) : Contains(TermCalls[i].subject, "SIGTERM")

\* C8: from the classification step to the end of the terminated send both
\* saved dispositions are back in place, and no signal that arrived during
\* the terminated send was handled by the guard's handler.
C8_RestoreBeforeNotify ==
  /\ pc \in {"L144", "L155", "L193", "L159"} => (Restored /\ HandlerGone)
  /\ TermSends > 0 => (pc \in {"done", "killed"} \/ (Restored /\ HandlerGone))
  /\ \A i \in 1..Len(sigLog) : sigLog[i].pc = "L193" => sigLog[i].disp = prior[sigLog[i].sig]
C8_Witness ==
  /\ TermSends = 1
  /\ \E i \in 1..Len(sigLog) : sigLog[i].pc = "L193" /\ sigLog[i].disp = "SIG_IGN"

\* C9: when the guard's handler intercepted a signal inside the block and
\* then a later one, release still completes: the dispositions are restored,
\* the report (with a mailer) is made and names the first signal, and the
\* first signal's exit is what reaches the caller.
C9_FirstSignalWins ==
  (pc = "done" /\ trigger # "None" /\ Len(InterceptedLog) >= 2) =>
    /\ Restored
    /\ result = _handle_signal(trigger)
    /\ mailer => (TermSends = 1 /\ Contains(TermCalls[1].body, trigger))

\* C10: whenever the guard's handler intercepted a signal, wherever the
\* with-statement was, the with-statement comes back with both dispositions
\* restored and the terminated notification attempted.
C10_InterceptedAnywhereReleases ==
  (pc = "done" /\ Len(InterceptedLog) >= 1) =>
    /\ Restored
    /\ mailer => TermSends = 1

\* C11: when the block completed normally, the with-statement comes back to
\* the caller as a normal return: release raised nothing.
C11_NormalCompletionReturns ==
  (pc = "done" /\ blockExit = "return") => result = Return

Propagated(e) == IF e = NoExc THEN Return ELSE e
LastRet == outbox[Len(outbox)].ret

\* C12: a transport failure raised inside send (connect, starttls, login,
\* sendmail, quit) never leaves send: the step that raises it ends send with
\* the return value False and touches neither the exception being propagated
\* nor the result; no transport error ever reaches the caller, and after a
\* failed send release still propagates the outcome it was given.
C12_SendCatchesTransportFailures ==
  /\ [](result.type \notin {"SMTPException", "OSError"})
  /\ []((pc \in SendSites /\ sendErr # NoExc) => (smtp = "ret" /\ LastRet = "False"))
  /\ [][(sendErr' # sendErr /\ sendErr' # NoExc) => (pc' = pc /\ smtp' = "ret" /\ exc' = exc /\ result' = result)]_vars
  /\ [][(pc = "L159" /\ sendErr # NoExc /\ sigLog' = sigLog) => result' = Propagated(exc)]_vars
C12_Witness ==
  /\ pc = "done"
  /\ sendErr = ConnectionBroken
  /\ TermSends = 1
  /\ LastRet = "False"
  /\ exc.type = "ValueError"
  /\ result = exc

\* C13: whenever send is at its return statement, every connection send has
\* opened is closed.
C13_ConnectionClosedAtReturn ==
  (pc \in SendSites /\ smtp = "ret") => conns = 0

\* C14: the disposition of every signal other than SIGINT and SIGTERM is,
\* in every state, the one it had before the first acquire.
C14_OnlyInterceptedChange ==
  \A s \in AllSignals \ Intercepted : disp[s] = first[s]
C14_Witness ==
  /\ pc = "L141"
  /\ disp["SIGINT"] = Handler
  /\ disp["SIGTERM"] = prior["SIGTERM"]
  /\ disp["SIGHUP"] = "SIG_IGN"

\* the table the guard keeps at each statement, whatever its configuration
ExpectedDisp ==
  [s \in AllSignals |->
     IF s = "SIGTERM" /\ pc \in {"L112", "L115", "L126", "block", "L140"} THEN Handler
     ELSE IF s = "SIGINT" /\ pc \in {"L115", "L126", "block", "L140", "L141"} THEN Handler
     ELSE prior[s]]

\* C15: the guard has no mailer exactly when the recipient, the sender or the
\* password is missing; a guard without mailer never calls send; and with or
\* without mailer the table at each statement of the with-statement is the
\* same function of the statement and the prior table, and line 159
\* propagates the outcome release was given.
C15_DegradedOnlySkipsSends ==
  /\ [](mailer <=> (recipient_email /\ sender_email /\ sender_password))
  /\ [](~mailer => outbox = <<>>)
  /\ [](pc \notin {"done", "killed"} => disp = ExpectedDisp)
  /\ [][(pc = "L159" /\ sigLog' = sigLog) => (pc' = "done" /\ result' = Propagated(exc))]_vars
C15_Witness ==
  /\ ~mailer
  /\ ~recipient_email /\ sender_email /\ sender_password
  /\ pc = "done"
  /\ exitEntered
  /\ trigger = "SIGTERM"
  /\ result = _handle_signal("SIGTERM")
  /\ Restored
  /\ outbox = <<>>

\* C16: no step in which a signal is delivered adds a call of send; every
\* call of send is added by line 115-126 of __enter__ or by _trigger_alert.
C16_NoSendInHandler ==
  [][Len(outbox') > Len(outbox) => (sigLog' = sigLog /\ pc \in {"L115", "L155"})]_vars
C16_Witness ==
  /\ Len(InterceptedLog) >= 1
  /\ trigger # "None"
  /\ Len(StartCalls) = 1
  /\ TermSends = 1

\* C17: when the start send returns, True or False, __enter__ goes on to the
\* block with both handlers installed; when the terminated send returns,
\* True or False, release goes on to line 159 with the same exception, and
\* line 159 propagates it.
C17_SendResultIgnored ==
  /\ [][(pc = "L126" /\ smtp = "ret" /\ sigLog' = sigLog) =>
          (pc' = "block" /\ disp'["SIGINT"] = Handler /\ disp'["SIGTERM"] = Handler)]_vars
  /\ [][(pc = "L193" /\ smtp = "ret" /\ sigLog' = sigLog) => (pc' = "L159" /\ exc' = exc)]_vars
  /\ [][(pc = "L159" /\ sigLog' = sigLog /\ Len(outbox) > 0) => result' = Propagated(exc)]_vars
C17_Witness ==
  /\ pc = "done"
  /\ Len(StartCalls) = 1 /\ StartCalls[1].ret = "False"
  /\ TermSends = 1 /\ TermCalls[1].ret = "False"
  /\ blockExit = "raise"
  /\ result = exc

\* C18: the terminated report is made from the exception handed to release:
\* none gives "Success" and "None"; KeyboardInterrupt gives the
\* user-interrupt status and the short explanation, no trace; any other
\* gives "Crashed / Terminated" and the trace with type name and message.
\* The subject carries the status, the body the status and the details.
C18_ClassifiedFromException ==
  \A i \in 1..Len(TermCalls) :
    LET m == TermCalls[i] IN
    /\ exc = NoExc =>
          /\ Contains(m.subject, "Success") /\ Contains(m.body, "Success")
          /\ Contains(m.body, "None")
    /\ exc.type = "KeyboardInterrupt" =>
          /\ Contains(m.subject, "Interrupted by User (Ctrl+C)")
          /\ Contains(m.body, "Interrupted by User (Ctrl+C)")
          /\ Contains(m.body, "User manually stopped the program.")
          /\ ~Contains(m.body, "Traceback (most recent call last):")
    /\ exc.type \notin {"None", "KeyboardInterrupt"} =>
          /\ Contains(m.subject, "Crashed / Terminated")
          /\ Contains(m.body, "Crashed / Terminated")
          /\ Contains(m.body, "Traceback (most recent call last):")
          /\ Contains(m.body, exc.type)
          /\ \A k \in 1..Len(exc.msg) : Contains(m.body, exc.msg[k])
C18_Witness ==
  /\ TermSends = 1
  /\ exc = [type |-> "ValueError", msg |-> <<"x">>]
  /\ Contains(TermCalls[1].body, "ValueError")
  /\ Contains(TermCalls[1].body, "x")

CycleTermSends == Len(SelectSeq(outbox, LAMBDA m : m.from = "_trigger_alert" /\ m.cycle = cycle))

\* C19: when release of the second with-statement on the same instance is
\* at its return statement, SIGINT and SIGTERM have the dispositions they had
\* before the first acquire, and that with-statement has made its own single
\* terminated-notification call (none without mailer).
C19_CyclesRestoreFirst ==
  (cycle = MaxCycles /\ pc = "L159") =>
    /\ \A s \in Intercepted : disp[s] = first[s]
    /\ CycleTermSends = (IF mailer THEN 1 ELSE 0)

====
